---- MODULE Spec2Model ----
(***************************************************************************)
(* Model of the padel stroke tooling:                                      *)
(*   - Capturadatos.py : raw-burst capture from the serial line stream and *)
(*     the per-class CSV datasets (SpecCapture);                           *)
(*   - dashboard.py    : the classification-block reader thread, the Tk    *)
(*     event queue and the SessionData store (SpecDashboard).              *)
(* Text is modelled as sequences of string tokens; float() and the format  *)
(* specifiers are tables over the token vocabulary that the line sources   *)
(* below can produce.                                                      *)
(***************************************************************************)
EXTENDS Integers, Sequences, FiniteSets, TLC

VARIABLES
    \* ---- Capturadatos.py ----
    pc,           \* position of main(): "menu", "wait", "decide", "exit"
    stroke_type,  \* main(): class being recorded ("" at the menu)
    capturing,    \* capture_stroke(): local flag
    samples,      \* capture_stroke(): local list / main(): returned burst
    files,        \* data/<class>.csv : [exists, rows]
    linkUp,       \* the serial device is still attached
    failReads,    \* history: readline calls that have raised SerialException
    printed,      \* what the last step wrote to the console
    removed,      \* return value of the last remove_last_stroke ("" if none)
    sinceStart,   \* history: sample lines accepted since the latest start marker
    restarted,    \* history: a start marker found samples in the buffer, in this capture_stroke call
    \* ---- Capturadatos.py : history of the capture_stroke calls of one recording ----
    skipped,      \* a line was skipped as malformed since the latest start marker
    prevOutcome,  \* how the capture_stroke call before the current one ended
    diag,         \* the counts of the diagnostic the latest read printed
    got,          \* the six-number lines received since the latest start marker
    \* ---- dashboard.py : the clock of SessionData ----
    now,          \* datetime.now(), in whole seconds since the program started
    start_time,   \* SessionData.start_time
    \* ---- dashboard.py : export ----
    exported,     \* the rows of the file the latest export_csv wrote
    dialog,       \* the message box _export_session showed last
    \* ---- dashboard.py : the dict objects of the reader and of its events ----
    heap,         \* the dict objects alive, by identity
    hst,          \* the reader's locals: the identities of its two maps, and its flags
    handed,          \* the events handed to the callback: the identities of their maps
    inhand,       \* the line the reader thread has read and not yet processed
    nHeaders,     \* result header lines the reader has processed
    \* ---- Capturadatos.py : remove_last_stroke step by step, and a concurrent reader ----
    rm,           \* remove_last_stroke in progress: [pc, cls, lines, before]
    counted,      \* the last count_existing_strokes of the concurrent reader
    \* ---- dashboard.py : SerialReader ----
    rpc,          \* reader thread: "off", "open", "loop", "done"
    running,      \* SerialReader.running
    serOpen,      \* SerialReader.ser is set and open
    rst,          \* locals of _read_loop: confidences, imu_stats, parsing_result, parsing_imu
    \* ---- dashboard.py : PadelDashboard / SessionData ----
    connected,    \* PadelDashboard.connected
    paused,       \* PadelDashboard.paused
    status,       \* text of lbl_status
    tkq,          \* callbacks queued with root.after(0, ...)
    strokes,      \* SessionData.strokes
    counts,       \* SessionData.counts
    call,         \* the last SessionData call made by the UI loop: [op, raised, ret]
    shown,        \* what the last _update_loop tick read: log length and counts
    \* ---- history ----
    nEmitted,     \* how many StrokeEvents the reader has passed to its callback
    lastEmit,     \* the last of them
    accepted,     \* ids of the events emitted while the dashboard was not paused
    added,        \* ids of the events passed to add_stroke, in order
    wfIds,        \* ids of the events that closed a complete well-formed block
    blk,          \* the lines since the last result header, read as a classification block
    seen,         \* the detection line the reader processed last, and the locals it met
    fresh         \* the pairs on the lines read since the latest result header

capVars == <<pc, stroke_type, capturing, samples, files, linkUp, failReads, printed, removed, sinceStart, restarted>>

readerVars == <<rpc, running, serOpen, rst>>

uiVars == <<connected, paused, status>>

sessionVars == <<strokes, counts, call, shown>>

histVars == <<nEmitted, lastEmit, accepted, added, wfIds, blk, seen, fresh>>

dashVars == <<readerVars, uiVars, tkq, sessionVars, histVars>>

rmVars == <<rm, counted>>

traceVars == <<skipped, prevOutcome, diag, got>>

clockVars == <<now, start_time>>

exportVars == <<exported, dialog>>

heapVars == <<heap, hst, handed>>

extraVars == <<exportVars, heapVars, inhand, nHeaders>>

vars == <<capVars, traceVars, rmVars, dashVars, clockVars, extraVars>>

----------------------------------------------------------------------------
(* Capturadatos.py : configuration                                          *)

NUM_SAMPLES == 150

CSV_HEADER == <<"aX", "aY", "aZ", "gX", "gY", "gZ">>

STROKE_TYPES == <<"drive", "reves", "smash", "bandeja", "ruido">>

(* Bounds of the exploration. *)
MaxExtra == 1        \* samples buffered beyond NUM_SAMPLES before the feed stops
MaxBursts == 2       \* bursts kept per class file
MaxFailReads == 2    \* failed readline calls followed

(* The classes the operator works with in the exploration. *)
Classes == {STROKE_TYPES[1], STROKE_TYPES[2]}

----------------------------------------------------------------------------
(* Lines of the raw-capture feed, after decode('utf-8').strip(): the       *)
(* comma-separated fields of the line.                                     *)

START_MARK == "---STROKE_START---"
END_MARK == "---STROKE_END---"

LineBlank == <<>>
LineStart == <<START_MARK>>
LineEnd == <<END_MARK>>
LineA == <<"0.50", "-0.25", "1", "10.0", "0.0", "3.5">>
LineB == <<"1.2346", "-0.25", "1", "10.0", "0.0", "3.5">>
LineFive == <<"0.50", "-0.25", "1", "10.0", "0.0">>
LineSeven == <<"0.50", "-0.25", "1", "10.0", "0.0", "3.5", "7.0">>
LineText == <<"0.50", "-0.25", "abc", "10.0", "0.0", "3.5">>
LineNoise == <<"Movimiento detectado">>
LineNan == <<"0.50", "nan", "1", "10.0", "0.0", "3.5">>

(* float(v): the tokens float() accepts, and the value (its repr) it gives; *)
(* any other token raises ValueError.                                      *)
FloatTokens == {"0.50", "-0.25", "1", "10.0", "0.0", "3.5", "7.0", "1.2346", "nan"}

FloatOk(t) == t \in FloatTokens

FloatTable ==
    [t \in FloatTokens |->
        CASE t = "0.50" -> "0.5"
          [] t = "1" -> "1.0"
          [] OTHER -> t]

(* f"{v:.3f}" *)
Format3(v) ==
    CASE v = "0.5" -> "0.500"
      [] v = "-0.25" -> "-0.250"
      [] v = "1.0" -> "1.000"
      [] v = "10.0" -> "10.000"
      [] v = "0.0" -> "0.000"
      [] v = "3.5" -> "3.500"
      [] v = "7.0" -> "7.000"
      [] v = "1.2346" -> "1.235"
      [] v = "nan" -> "nan"

Contains(line, mark) == \E i \in 1..Len(line) : line[i] = mark

(* [float(v) for v in line.split(',')] raises ValueError on any bad token. *)
ParseRaises(line) == \E i \in 1..Len(line) : ~FloatOk(line[i])

ParseValuesReversed(line) == [i \in 1..Len(line) |-> FloatTable[line[Len(line) + 1 - i]]]

ParseValues(line) == [i \in 1..Len(line) |-> FloatTable[line[i]]]

----------------------------------------------------------------------------
(* Per-class dataset files.                                                *)

NoFile == [exists |-> FALSE, rows |-> <<>>]

FormatRow(sample) == [i \in 1..Len(sample) |-> Format3(sample[i])]

FormatRows(all_samples) == [i \in 1..Len(all_samples) |-> FormatRow(all_samples[i])]

(* A variant of save_strokes_to_csv that writes the header on every call;  *)
(* C18 does not hold with it.                                              *)
SaveFileAlwaysHeader(f, all_samples) ==
    [exists |-> TRUE, rows |-> f.rows \o <<CSV_HEADER>> \o FormatRows(all_samples)]

SaveFileRewrites(f, all_samples) ==
    [exists |-> TRUE, rows |-> <<CSV_HEADER>> \o FormatRows(all_samples)]

(* save_strokes_to_csv: header only when the file is absent or empty, then *)
(* the rows are appended.                                                  *)
SaveFile(f, all_samples) ==
    LET file_exists == f.exists /\ Len(f.rows) > 0
    IN  [exists |-> TRUE,
         rows |-> (IF file_exists THEN f.rows ELSE <<CSV_HEADER>>)
                  \o FormatRows(all_samples)]

RemoveOkAnyRows(f) == f.exists /\ Len(f.rows) - 1 >= 1

(* remove_last_stroke: the returned flag.                                  *)
RemoveOk(f) == f.exists /\ Len(f.rows) - 1 >= NUM_SAMPLES

(* A variant of remove_last_stroke that cuts one row too few; C3 does not  *)
(* hold with it.                                                           *)
RemoveFileKeepsRow(f) ==
    IF ~RemoveOk(f) THEN f
    ELSE LET lines == SubSeq(f.rows, 1, Len(f.rows) - NUM_SAMPLES + 1)
         IN  IF Len(lines) <= 1 THEN NoFile
             ELSE [exists |-> TRUE, rows |-> lines]

(* A variant of remove_last_stroke that always rewrites the file; C12 does *)
(* not hold with it.                                                       *)
RemoveFileKeepsHeader(f) ==
    IF ~RemoveOk(f) THEN f
    ELSE [exists |-> TRUE, rows |-> SubSeq(f.rows, 1, Len(f.rows) - NUM_SAMPLES)]

RemoveFileDropsFirst(f) ==
    IF ~RemoveOk(f) THEN f
    ELSE LET lines == <<f.rows[1]>> \o SubSeq(f.rows, NUM_SAMPLES + 2, Len(f.rows))
         IN  IF Len(lines) <= 1 THEN NoFile
             ELSE [exists |-> TRUE, rows |-> lines]

(* remove_last_stroke: the file afterwards.                                *)
RemoveFile(f) ==
    IF ~RemoveOk(f) THEN f
    ELSE LET lines == SubSeq(f.rows, 1, Len(f.rows) - NUM_SAMPLES)
         IN  IF Len(lines) <= 1 THEN NoFile
             ELSE [exists |-> TRUE, rows |-> lines]

(* count_existing_strokes *)
DataRows(f) == IF f.exists /\ Len(f.rows) > 0 THEN Len(f.rows) - 1 ELSE 0

count_existing_strokes(f) == IF ~f.exists THEN 0 ELSE DataRows(f) \div NUM_SAMPLES

----------------------------------------------------------------------------
(* capture_stroke, one readline at a time, inside main()'s capture loop.   *)

(* A variant of the end-marker test that accepts an over-long buffer; C2   *)
(* does not hold with it.                                                  *)
BurstCompleteAtLeast(buf) == Len(buf) >= NUM_SAMPLES

(* len(samples) == NUM_SAMPLES, the test made on the end marker. *)
BurstComplete(buf) == Len(buf) = NUM_SAMPLES

FreshCaptureKeepsBuffer ==
    /\ capturing' = FALSE
    /\ sinceStart' = 0
    /\ restarted' = FALSE
    /\ UNCHANGED samples

FreshCapture ==
    /\ capturing' = FALSE
    /\ samples' = <<>>
    /\ sinceStart' = 0
    /\ restarted' = FALSE

(* A variant of the start-marker branch that keeps the buffer; C11 does    *)
(* not hold with it.                                                       *)
RestartKeeps(buf) == buf

(* samples = [] on a start marker. *)
Restart(buf) == <<>>

SampleOkAnyLength(line) == ~ParseRaises(line)

(* Every field converts with float() and there are six of them. *)
SampleOk(line) == ~ParseRaises(line) /\ Len(line) = 6

(* One iteration of the while loop of capture_stroke on `line`.  A return  *)
(* of None sends main() straight into the next capture_stroke call.        *)
ReadLine(line) ==
    /\ pc = "wait"
    /\ linkUp
    /\ UNCHANGED <<stroke_type, files, linkUp, failReads, removed>>
    /\ IF Len(line) = 0
       THEN UNCHANGED <<pc, capturing, samples, sinceStart, restarted>> /\ printed' = "none"
       ELSE IF Contains(line, START_MARK)
       THEN /\ capturing' = TRUE
            /\ samples' = Restart(samples)
            /\ sinceStart' = 0
            /\ restarted' = (restarted \/ samples # <<>>)
            /\ UNCHANGED pc
            /\ printed' = "none"
       ELSE IF Contains(line, END_MARK)
       THEN IF BurstComplete(samples)
            THEN /\ pc' = "decide"
                 /\ printed' = "capturado"
                 /\ UNCHANGED <<capturing, samples, sinceStart, restarted>>
            ELSE /\ printed' = "incompleta"
                 /\ FreshCapture
                 /\ UNCHANGED pc
       ELSE IF capturing /\ SampleOk(line)
       THEN /\ samples' = Append(samples, ParseValues(line))
            /\ sinceStart' = sinceStart + 1
            /\ printed' = "none"
            /\ UNCHANGED <<pc, capturing, restarted>>
       ELSE UNCHANGED <<pc, capturing, samples, sinceStart, restarted>> /\ printed' = "none"

(* ser.readline() raises SerialException: capture_stroke returns None and  *)
(* main() retries.                                                         *)
ReadFail ==
    /\ pc = "wait"
    /\ failReads < MaxFailReads
    /\ linkUp' = FALSE
    /\ failReads' = failReads + 1
    /\ printed' = "conexion"
    /\ FreshCapture
    /\ UNCHANGED <<pc, stroke_type, files, removed>>

(* main(): the menu.                                                        *)
MenuRecord(c) ==
    /\ pc = "menu"
    /\ pc' = "wait"
    /\ stroke_type' = c
    /\ FreshCapture
    /\ printed' = "none"
    /\ removed' = ""
    /\ UNCHANGED <<files, linkUp, failReads>>

(* choice 'd': remove_last_stroke on the chosen class. *)
MenuDelete(c) ==
    /\ pc = "menu"
    /\ files' = [files EXCEPT ![c] = RemoveFile(files[c])]
    /\ removed' = IF RemoveOk(files[c]) THEN "True" ELSE "False"
    /\ printed' = IF RemoveOk(files[c]) THEN "eliminado" ELSE "no hay golpes"
    /\ UNCHANGED <<pc, stroke_type, capturing, samples, linkUp, failReads, sinceStart, restarted>>

(* choice 'r': the class file is deleted if it exists. *)
MenuReset(c) ==
    /\ pc = "menu"
    /\ files' = [files EXCEPT ![c] = NoFile]
    /\ printed' = IF files[c].exists THEN "archivo eliminado" ELSE "no existe"
    /\ removed' = ""
    /\ UNCHANGED <<pc, stroke_type, capturing, samples, linkUp, failReads, sinceStart, restarted>>

(* choice 'q', or Ctrl+C at the menu prompt. *)
MenuQuit ==
    /\ pc = "menu"
    /\ pc' = "exit"
    /\ printed' = "none"
    /\ removed' = ""
    /\ UNCHANGED <<stroke_type, capturing, samples, files, linkUp, failReads, sinceStart, restarted>>

(* The prompt after a capture: Enter saves the burst, 'd' discards it; the *)
(* loop then calls capture_stroke again.                                   *)
DecideSave ==
    /\ pc = "decide"
    /\ count_existing_strokes(files[stroke_type]) < MaxBursts
    /\ files' = [files EXCEPT ![stroke_type] = SaveFile(files[stroke_type], samples)]
    /\ pc' = "wait"
    /\ FreshCapture
    /\ printed' = "guardado"
    /\ UNCHANGED <<stroke_type, linkUp, failReads, removed>>

DecideDiscard ==
    /\ pc = "decide"
    /\ pc' = "wait"
    /\ FreshCapture
    /\ printed' = "descartado"
    /\ UNCHANGED <<stroke_type, files, linkUp, failReads, removed>>

(* Ctrl+C while blocked in readline or at the prompt: back to the menu.    *)
Interrupt ==
    /\ pc \in {"wait", "decide"}
    /\ pc' = "menu"
    /\ stroke_type' = ""
    /\ FreshCapture
    /\ printed' = "sesion"
    /\ UNCHANGED <<files, linkUp, failReads, removed>>

(* The lines the device feed is drawn from.  A well-formed line is fed only *)
(* while the buffer is below NUM_SAMPLES + MaxExtra; LineB, which tells one *)
(* burst from another, only as the first sample of the first burst of a    *)
(* class file.                                                             *)
CaptureLines ==
    {LineBlank, LineStart, LineEnd, LineA, LineB, LineFive, LineSeven,
     LineText, LineNoise}

Fed(line) ==
    /\ pc = "wait"
    /\ line \in {LineA, LineB} => Len(samples) < NUM_SAMPLES + MaxExtra
    /\ line = LineB =>
          /\ Len(samples) = 0
          /\ count_existing_strokes(files[stroke_type]) = 0

CapStart ==
    /\ pc = "menu"
    /\ stroke_type = ""
    /\ capturing = FALSE
    /\ samples = <<>>
    /\ linkUp = TRUE
    /\ failReads = 0
    /\ printed = "none"
    /\ removed = ""
    /\ sinceStart = 0
    /\ restarted = FALSE

(* main() started on an empty output directory. *)
CapInit ==
    /\ CapStart
    /\ files = [c \in Classes |-> NoFile]

----------------------------------------------------------------------------
(* remove_last_stroke statement by statement, as a second process that     *)
(* calls count_existing_strokes on the same directory sees it.             *)

RmIdle == [pc |-> "idle", cls |-> "", lines |-> <<>>, before |-> 0]

NoCount == [cls |-> "", n |-> 0, racing |-> FALSE, before |-> 0]

(* One captured burst: NUM_SAMPLES samples. *)
WholeBurst == [i \in 1..NUM_SAMPLES |-> ParseValues(LineA)]

(* A capture followed by save_strokes_to_csv, at once. *)
PersistBurst(c) ==
    /\ pc = "menu"
    /\ rm.pc = "idle"
    /\ count_existing_strokes(files[c]) < MaxBursts
    /\ files' = [files EXCEPT ![c] = SaveFile(files[c], WholeBurst)]
    /\ printed' = "guardado"
    /\ UNCHANGED <<pc, stroke_type, capturing, samples, linkUp, failReads, removed, sinceStart,
                   restarted, rm, counted>>

(* The file is read (lines 182-195); a missing or short file returns False. *)
RemoveBegin(c) ==
    /\ pc = "menu"
    /\ rm.pc = "idle"
    /\ IF RemoveOk(files[c])
       THEN /\ rm' = [pc |-> "read", cls |-> c,
                      lines |-> SubSeq(files[c].rows, 1, Len(files[c].rows) - NUM_SAMPLES),
                      before |-> count_existing_strokes(files[c])]
            /\ UNCHANGED <<removed, printed>>
       ELSE /\ removed' = "False"
            /\ printed' = "no hay golpes"
            /\ UNCHANGED rm
    /\ UNCHANGED <<pc, stroke_type, capturing, samples, files, linkUp, failReads, sinceStart,
                   restarted, counted>>

(* os.remove(filepath), or open(filepath, 'w'), which truncates the file.  *)
RemoveCut ==
    /\ rm.pc = "read"
    /\ IF Len(rm.lines) <= 1
       THEN /\ files' = [files EXCEPT ![rm.cls] = NoFile]
            /\ rm' = RmIdle
            /\ removed' = "True"
            /\ printed' = "eliminado"
       ELSE /\ files' = [files EXCEPT ![rm.cls] = [exists |-> TRUE, rows |-> <<>>]]
            /\ rm' = [rm EXCEPT !.pc = "open"]
            /\ UNCHANGED <<removed, printed>>
    /\ UNCHANGED <<pc, stroke_type, capturing, samples, linkUp, failReads, sinceStart, restarted,
                   counted>>

(* f.writelines(lines) and the close of the file. *)
RemoveWrite ==
    /\ rm.pc = "open"
    /\ files' = [files EXCEPT ![rm.cls] = [exists |-> TRUE, rows |-> rm.lines]]
    /\ rm' = RmIdle
    /\ removed' = "True"
    /\ printed' = "eliminado"
    /\ UNCHANGED <<pc, stroke_type, capturing, samples, linkUp, failReads, sinceStart, restarted,
                   counted>>

(* count_existing_strokes run by the second process. *)
CountRun(c) ==
    /\ counted' = [cls |-> c, n |-> count_existing_strokes(files[c]),
                   racing |-> (rm.pc # "idle" /\ rm.cls = c), before |-> rm.before]
    /\ UNCHANGED <<capVars, rm>>

RmInit ==
    /\ rm = RmIdle
    /\ counted = NoCount

RmStep ==
    \/ \E c \in Classes : PersistBurst(c)
    \/ \E c \in Classes : RemoveBegin(c)
    \/ RemoveCut
    \/ RemoveWrite
    \/ \E c \in Classes : CountRun(c)

----------------------------------------------------------------------------
(* main() started on an output directory that already holds class files:   *)
(* nothing, an empty file, a header alone, a header and one row, one       *)
(* burst, or one burst and one more row.  The menu then saves, removes and *)
(* resets.                                                                 *)

RowB == FormatRow(ParseValues(LineB))

BurstRows == <<RowB>> \o SubSeq(FormatRows(WholeBurst), 2, NUM_SAMPLES)

OnDisk(rows) == [exists |-> TRUE, rows |-> rows]

StartFiles ==
    {NoFile,
     OnDisk(<<>>),
     OnDisk(<<CSV_HEADER>>),
     OnDisk(<<CSV_HEADER, RowB>>),
     OnDisk(<<CSV_HEADER>> \o BurstRows),
     OnDisk(<<CSV_HEADER>> \o BurstRows \o <<RowB>>)}

FilesStep ==
    \/ \E c \in Classes : PersistBurst(c)
    \/ \E c \in Classes : MenuDelete(c)
    \/ \E c \in Classes : MenuReset(c)

----------------------------------------------------------------------------
(* The capture loop of one class, with the history of its capture_stroke   *)
(* calls: whether a malformed line was skipped inside the current frame,   *)
(* and how the previous call ended ("none", "complete", "fewer", "more").  *)

IsMarkerLine(line) == Contains(line, START_MARK) \/ Contains(line, END_MARK)

(* A non-empty line without a marker that is not six numeric fields. *)
Malformed(line) ==
    /\ Len(line) > 0
    /\ ~IsMarkerLine(line)
    /\ (Len(line) # 6 \/ \E i \in 1..Len(line) : ~FloatOk(line[i]))

FrameLines ==
    {LineBlank, LineStart, LineEnd, LineA, LineNan, LineFive, LineSeven,
     LineText, LineNoise}

(* LineNan, like LineB, is fed only as the first sample of a frame. *)
FrameFed(line) ==
    /\ pc = "wait"
    /\ line \in {LineA, LineNan} => Len(samples) < NUM_SAMPLES + MaxExtra
    /\ line = LineNan => Len(samples) = 0

NoDiag == [observed |-> -1, expected |-> -1]

(* f"Captura incompleta ({len(samples)}/{NUM_SAMPLES} muestras)" *)
Incompleta(buf) == [observed |-> Len(buf), expected |-> NUM_SAMPLES]

(* Six fields, each a number as float() reads it. *)
SixNumbers(line) == Len(line) = 6 /\ \A i \in 1..6 : line[i] \in FloatTokens

NoneGot == [open |-> FALSE, lines |-> <<>>]

FrameRecord ==
    /\ MenuRecord(STROKE_TYPES[1])
    /\ got' = NoneGot
    /\ skipped' = FALSE
    /\ prevOutcome' = "none"
    /\ diag' = NoDiag

FrameRead(line) ==
    /\ ReadLine(line)
    /\ diag' = IF printed' = "incompleta" THEN Incompleta(samples) ELSE NoDiag
    /\ got' = IF Contains(line, START_MARK) THEN [open |-> TRUE, lines |-> <<>>]
              ELSE IF Contains(line, END_MARK)
              THEN (IF pc' = "decide" THEN got ELSE NoneGot)
              ELSE IF got.open /\ SixNumbers(line)
              THEN [got EXCEPT !.lines = Append(@, line)]
              ELSE got
    /\ IF Contains(line, START_MARK)
       THEN skipped' = FALSE /\ UNCHANGED prevOutcome
       ELSE IF Contains(line, END_MARK)
       THEN IF Len(samples) = NUM_SAMPLES
            THEN UNCHANGED <<skipped, prevOutcome>>
            ELSE /\ skipped' = FALSE
                 /\ prevOutcome' = IF ~capturing THEN "idle"
                                   ELSE IF Len(samples) < NUM_SAMPLES THEN "fewer"
                                   ELSE "more"
       ELSE /\ skipped' = (skipped \/ (capturing /\ Malformed(line)))
            /\ UNCHANGED prevOutcome

FrameDiscard ==
    /\ DecideDiscard
    /\ got' = NoneGot
    /\ skipped' = FALSE
    /\ prevOutcome' = "complete"
    /\ diag' = NoDiag

FrameInterrupt ==
    /\ Interrupt
    /\ got' = NoneGot
    /\ skipped' = FALSE
    /\ prevOutcome' = "none"
    /\ diag' = NoDiag

TraceInit ==
    /\ skipped = FALSE
    /\ prevOutcome = "none"
    /\ diag = NoDiag
    /\ got = NoneGot

FrameStep ==
    \/ FrameRecord
    \/ \E line \in FrameLines : FrameFed(line) /\ FrameRead(line)
    \/ FrameDiscard
    \/ FrameInterrupt

CapStep ==
    \/ \E c \in Classes : MenuRecord(c)
    \/ \E c \in Classes : MenuDelete(c)
    \/ \E c \in Classes : MenuReset(c)
    \/ MenuQuit
    \/ \E line \in CaptureLines : Fed(line) /\ ReadLine(line)
    \/ ReadFail
    \/ DecideSave
    \/ DecideDiscard
    \/ Interrupt

----------------------------------------------------------------------------
(* dashboard.py : configuration                                             *)

ALL_CLASSES == {"drive", "reves", "smash", "descanso"}

(* Bounds of the exploration. *)
MaxEvents == 3       \* result blocks fed in the dashboard exploration
MaxBlocks == 2       \* result blocks fed in the framer exploration
MaxQueue == 2        \* callbacks waiting in the Tk queue

----------------------------------------------------------------------------
(* Lines of the classifier feed, after decode('utf-8').strip(), as tokens.  *)

RESULT_HDR == "--- Resultado ---"
IMU_HDR == "--- IMU ---"
DETECT == ">>> GOLPE DETECTADO:"
NOREC == ">>> Golpe no reconocido"

DBlank == <<>>
DResult == <<RESULT_HDR>>
DImu == <<IMU_HDR>>
DConfDrive == <<"Drive", ":", "87.0", "%">>
DConfReves == <<"reves", ":", "10.0", "%">>
DStat == <<"accel_pico", ":", "3.2">>
DDetDrive == <<DETECT, "Drive", "(", "87.0", "%)">>
DDetBandeja == <<DETECT, "bandeja", "(", "91.0", "%)">>
DNoRec == <<NOREC>>
DNoise == <<"Listo", "para", "clasificar">>
DDetBad == <<DETECT, "Drive", "(", "8.7.0", "%)">>

(* \w+ *)
Words == {"Drive", "reves", "bandeja", "accel_pico", "Listo", "para", "clasificar"}

(* [\d.]+ *)
DigitTokens == {"87.0", "10.0", "91.0", "3.2", "8.7.0"}

(* float(): the value in thousandths; "8.7.0" raises ValueError. *)
DFloatOk(t) == t \in {"87.0", "10.0", "91.0", "3.2"}

DFloat(t) ==
    CASE t = "87.0" -> 87000
      [] t = "10.0" -> 10000
      [] t = "91.0" -> 91000
      [] t = "3.2" -> 3200

(* str.lower() *)
Lower(w) == IF w = "Drive" THEN "drive" ELSE w

(* re.match(r'\s*(\w+):\s*([\d.]+)%', line) *)
MatchConf(line) ==
    /\ Len(line) >= 4
    /\ line[1] \in Words
    /\ line[2] = ":"
    /\ line[3] \in DigitTokens
    /\ line[4] = "%"

(* re.match(r'\s*([\w_]+):\s*([\d.]+)', line): a prefix match. *)
MatchImu(line) ==
    /\ Len(line) >= 3
    /\ line[1] \in Words
    /\ line[2] = ":"
    /\ line[3] \in DigitTokens

(* re.search(r'GOLPE DETECTADO:\s*(\w+)\s*\(([\d.]+)%\)', line): where it matches (0: nowhere). *)
DetectAt(line) ==
    LET hits == {i \in 1..Len(line) :
                    /\ i + 4 <= Len(line)
                    /\ line[i] = DETECT
                    /\ line[i + 1] \in Words
                    /\ line[i + 2] = "("
                    /\ line[i + 3] \in DigitTokens
                    /\ line[i + 4] = "%)"}
    IN  IF hits = {} THEN 0 ELSE CHOOSE i \in hits : \A j \in hits : i <= j

----------------------------------------------------------------------------
(* dicts *)

EmptyDict == [k \in {} |-> 0]

DictSet(d, k, v) == [x \in (DOMAIN d) \cup {k} |-> IF x = k THEN v ELSE d[x]]

DictMax(d) ==
    CHOOSE v \in {d[k] : k \in DOMAIN d} : \A k \in DOMAIN d : d[k] <= v

(* StrokeEvent; id stands for the object's identity (creation order).       *)
StrokeEvent(id, stroke, confidence, all_confidences, imu_stats) ==
    [id |-> id, stroke_type |-> stroke, confidence |-> confidence,
     all_confidences |-> all_confidences, imu_stats |-> imu_stats]

NoEvent == StrokeEvent(0, "", 0, EmptyDict, EmptyDict)

----------------------------------------------------------------------------
(* SerialReader._read_loop: the body of one iteration on a non-empty line.  *)
(* The result is the locals afterwards and what is handed to the callback:  *)
(* emit is "" (nothing), "hit" (positive detection) or "rest".              *)

ReaderLocals(confidences, imu_stats, parsing_result, parsing_imu) ==
    [confidences |-> confidences, imu_stats |-> imu_stats,
     parsing_result |-> parsing_result, parsing_imu |-> parsing_imu]

FreshLocals == ReaderLocals(EmptyDict, EmptyDict, FALSE, FALSE)

Outcome(st, emit, stroke, confidence, caught) ==
    [st |-> st, emit |-> emit, stroke |-> stroke, confidence |-> confidence,
     caught |-> caught]

Quiet(st) == Outcome(st, "", "", 0, "")

(* An exception inside the pass: `except Exception: continue`. *)
Caught(st) == Outcome(st, "", "", 0, "ValueError")

(* A variant of the detection branches without the `and confidences` / `if *)
(* confidences` gates; C6 does not hold with it.                           *)
DetectionLineUngated(st, line) ==
    IF Contains(line, DETECT)
    THEN LET at == DetectAt(line)
             cleared == ReaderLocals(EmptyDict, EmptyDict, FALSE, FALSE)
         IN  IF at # 0 /\ DFloatOk(line[at + 3])
             THEN Outcome(cleared, "hit", Lower(line[at + 1]),
                          DFloat(line[at + 3]) \div 100, "")
             ELSE Quiet(cleared)
    ELSE IF Contains(line, NOREC)
    THEN Outcome(ReaderLocals(EmptyDict, EmptyDict, FALSE, FALSE), "rest", "descanso",
                 IF st.confidences # EmptyDict THEN DictMax(st.confidences) ELSE 0, "")
    ELSE Quiet(st)

(* A variant of the result-header branch that keeps the IMU stats; C20     *)
(* does not hold with it.                                                  *)
ResultHeaderKeepsStats(st) == ReaderLocals(EmptyDict, st.imu_stats, TRUE, FALSE)

(* The result-header branch. *)
ResultHeader(st) == ReaderLocals(EmptyDict, EmptyDict, TRUE, FALSE)

(* A variant of the detection branches that leaves the maps as they are    *)
(* after an event; C35 does not hold with it.                              *)
DetectionLineKeepsMaps(st, line) ==
    IF Contains(line, DETECT)
    THEN LET at == DetectAt(line)
             idle == [st EXCEPT !.parsing_result = FALSE, !.parsing_imu = FALSE]
         IN  IF at # 0 /\ st.confidences # EmptyDict
             THEN IF DFloatOk(line[at + 3])
                  THEN Outcome(idle, "hit", Lower(line[at + 1]),
                               DFloat(line[at + 3]) \div 100, "")
                  ELSE Caught(idle)
             ELSE Quiet(idle)
    ELSE IF Contains(line, NOREC)
    THEN LET idle == [st EXCEPT !.parsing_result = FALSE, !.parsing_imu = FALSE]
         IN  IF st.confidences # EmptyDict
             THEN Outcome(idle, "rest", "descanso", DictMax(st.confidences), "")
             ELSE Quiet(idle)
    ELSE Quiet(st)

(* The detection branches, reached with parsing_imu already settled. *)
DetectionLine(st, line) ==
    IF Contains(line, DETECT)
    THEN LET at == DetectAt(line)
             idle == [st EXCEPT !.parsing_result = FALSE, !.parsing_imu = FALSE]
             cleared == [idle EXCEPT !.confidences = EmptyDict, !.imu_stats = EmptyDict]
         IN  IF at # 0 /\ st.confidences # EmptyDict
             THEN IF DFloatOk(line[at + 3])
                  THEN Outcome(cleared, "hit", Lower(line[at + 1]),
                               DFloat(line[at + 3]) \div 100, "")
                  ELSE Caught(idle)   \* float() raises: the maps are kept
             ELSE Quiet(cleared)
    ELSE IF Contains(line, NOREC)
    THEN LET cleared == ReaderLocals(EmptyDict, EmptyDict, FALSE, FALSE)
         IN  IF st.confidences # EmptyDict
             THEN Outcome(cleared, "rest", "descanso", DictMax(st.confidences), "")
             ELSE Quiet(cleared)
    ELSE Quiet(st)

(* A variant of the pass that drops the line that ends the IMU section     *)
(* instead of testing it as a detection line; C21 does not hold with it.   *)
ProcessLineDropsNonStat(st, line) ==
    IF Contains(line, RESULT_HDR)
    THEN Quiet(ResultHeader(st))
    ELSE IF Contains(line, IMU_HDR)
    THEN Quiet([st EXCEPT !.parsing_result = FALSE, !.parsing_imu = TRUE])
    ELSE IF st.parsing_result
    THEN IF MatchConf(line)
         THEN IF DFloatOk(line[3])
              THEN Quiet([st EXCEPT !.confidences =
                             DictSet(@, Lower(line[1]), DFloat(line[3]) \div 100)])
              ELSE Caught(st)
         ELSE Quiet(st)
    ELSE IF st.parsing_imu
    THEN IF MatchImu(line)
         THEN IF DFloatOk(line[3])
              THEN Quiet([st EXCEPT !.imu_stats = DictSet(@, line[1], DFloat(line[3]))])
              ELSE Caught(st)
         ELSE Quiet([st EXCEPT !.parsing_imu = FALSE])
    ELSE DetectionLine(st, line)

(* The body of one pass on a non-empty line. *)
ProcessLine(st, line) ==
    IF Contains(line, RESULT_HDR)
    THEN Quiet(ResultHeader(st))
    ELSE IF Contains(line, IMU_HDR)
    THEN Quiet([st EXCEPT !.parsing_result = FALSE, !.parsing_imu = TRUE])
    ELSE IF st.parsing_result
    THEN IF MatchConf(line)
         THEN IF DFloatOk(line[3])
              THEN Quiet([st EXCEPT !.confidences =
                             DictSet(@, Lower(line[1]), DFloat(line[3]) \div 100)])
              ELSE Caught(st)
         ELSE Quiet(st)
    ELSE IF st.parsing_imu
    THEN IF MatchImu(line)
         THEN IF DFloatOk(line[3])
              THEN Quiet([st EXCEPT !.imu_stats = DictSet(@, line[1], DFloat(line[3]))])
              ELSE Caught(st)
         ELSE DetectionLine([st EXCEPT !.parsing_imu = FALSE], line)
    ELSE DetectionLine(st, line)

(* One pass of the loop on what readline gave: an empty line is skipped    *)
(* before any branch.                                                      *)
Pass(st, line) == IF Len(line) = 0 THEN Quiet(st) ELSE ProcessLine(st, line)

----------------------------------------------------------------------------
(* SessionData *)

ZeroCounts == [c \in ALL_CLASSES |-> 0]

Session(log, cnt, raised, ret) ==
    [strokes |-> log, counts |-> cnt, raised |-> raised, ret |-> ret.id]

(* add_stroke: the append, then counts[event.stroke_type] += 1, which       *)
(* raises KeyError on a key the dict does not hold.                         *)
add_stroke(log, cnt, event) ==
    IF event.stroke_type \in DOMAIN cnt
    THEN Session(Append(log, event),
                 [cnt EXCEPT ![event.stroke_type] = @ + 1], "", NoEvent)
    ELSE Session(Append(log, event), cnt, "KeyError", NoEvent)

delete_lastUnguarded(log, cnt) ==
    IF log # <<>>
    THEN LET last == log[Len(log)]
         IN  Session(SubSeq(log, 1, Len(log) - 1),
                     [cnt EXCEPT ![last.stroke_type] = @ - 1], "", last)
    ELSE Session(log, cnt, "IndexError", NoEvent)

(* delete_last: the pop, then counts[last.stroke_type] -= 1, then return.   *)
delete_last(log, cnt) ==
    IF log # <<>>
    THEN LET last == log[Len(log)]
             rest == SubSeq(log, 1, Len(log) - 1)
         IN  IF last.stroke_type \in DOMAIN cnt
             THEN Session(rest, [cnt EXCEPT ![last.stroke_type] = @ - 1], "", last)
             ELSE Session(rest, cnt, "KeyError", NoEvent)
    ELSE Session(log, cnt, "", NoEvent)

reset_sessionKeepsLog == Session(strokes, ZeroCounts, "", NoEvent)

(* reset *)
reset_session == Session(<<>>, ZeroCounts, "", NoEvent)

Apply(op, s) ==
    /\ strokes' = s.strokes
    /\ counts' = s.counts
    /\ call' = [op |-> op, raised |-> s.raised, ret |-> s.ret]
    /\ UNCHANGED shown

----------------------------------------------------------------------------
(* The block the lines since the last result header spell, read by the     *)
(* wire format: header, confidence lines, IMU header, stat lines, detection. *)

IsConfLine(line) == Len(line) = 4 /\ MatchConf(line) /\ DFloatOk(line[3])

IsStatLine(line) == Len(line) = 3 /\ MatchImu(line) /\ DFloatOk(line[3])

IsDetectLine(line) == Len(line) = 5 /\ DetectAt(line) = 1 /\ DFloatOk(line[4])

Block(st, conf, imu, stroke, confidence, n) ==
    [st |-> st, conf |-> conf, imu |-> imu, stroke |-> stroke,
     confidence |-> confidence, n |-> n]

NoBlock == Block("none", EmptyDict, EmptyDict, "", 0, 0)

BlockRead(b, line) ==
    IF line = <<RESULT_HDR>> THEN Block("hdr", EmptyDict, EmptyDict, "", 0, 0)
    ELSE IF b.st \in {"hdr", "confs"} /\ IsConfLine(line)
    THEN [b EXCEPT !.st = "confs",
                   !.conf = DictSet(@, Lower(line[1]), DFloat(line[3]) \div 100)]
    ELSE IF b.st = "confs" /\ line = <<IMU_HDR>> THEN [b EXCEPT !.st = "imu"]
    ELSE IF b.st = "imu" /\ IsStatLine(line)
    THEN [b EXCEPT !.imu = DictSet(@, line[1], DFloat(line[3]))]
    ELSE IF b.st = "imu" /\ IsDetectLine(line)
    THEN [b EXCEPT !.st = "done", !.stroke = Lower(line[2]),
                   !.confidence = DFloat(line[4]) \div 100, !.n = nEmitted]
    ELSE NoBlock

----------------------------------------------------------------------------
(* A variant of _on_stroke_received that ignores the pause flag; the       *)
(* amended C4 does not hold with it.                                       *)
OnStrokeReceivedAlways(q, event, error, isPaused) ==
    IF error # "" THEN Append(q, [kind |-> "err", ev |-> event, msg |-> error])
    ELSE IF event.id # 0 THEN Append(q, [kind |-> "add", ev |-> event, msg |-> ""])
    ELSE q

(* The callbacks handed to root.after(0, ...). *)
TkAdd(e) == [kind |-> "add", ev |-> e, msg |-> ""]

TkErr(m) == [kind |-> "err", ev |-> NoEvent, msg |-> m]

(* PadelDashboard._on_stroke_received, run on the reader thread.            *)
OnStrokeReceived(q, event, error, isPaused) ==
    IF error # "" THEN Append(q, TkErr(error))
    ELSE IF event # NoEvent /\ ~isPaused THEN Append(q, TkAdd(event))
    ELSE q

RECURSIVE Deliver(_, _, _)
Deliver(q, evs, isPaused) ==
    IF evs = <<>> THEN q
    ELSE Deliver(OnStrokeReceived(q, Head(evs), "", isPaused), Tail(evs), isPaused)

(* SerialReader._read_loop *)
ReaderOpenOk ==
    /\ rpc = "open"
    /\ rpc' = "loop"
    /\ serOpen' = TRUE
    /\ rst' = FreshLocals
    /\ UNCHANGED <<running, uiVars, tkq, sessionVars, histVars>>

ReaderOpenFail ==
    /\ rpc = "open"
    /\ Len(tkq) < MaxQueue
    /\ rpc' = "done"
    /\ tkq' = OnStrokeReceived(tkq, NoEvent, "open failed", paused)
    /\ UNCHANGED <<running, serOpen, rst, uiVars, sessionVars, histVars>>

(* What a detection line met: the kind of line, the reader's mode and     *)
(* whether the accumulated confidences were empty.                         *)
Seen(det, mode, empty, stroke, confidence, emits, caught) ==
    [det |-> det, mode |-> mode, empty |-> empty, stroke |-> stroke,
     confidence |-> confidence, emits |-> emits, caught |-> caught]

NoSeen == Seen("", "", TRUE, "", 0, 0, "")

Mode(st) ==
    IF st.parsing_result THEN "result" ELSE IF st.parsing_imu THEN "imu" ELSE "idle"

SeenOf(st, line, out) ==
    LET emits == IF out.emit # "" THEN 1 ELSE 0
    IN  IF IsDetectLine(line)
        THEN Seen("pos", Mode(st), st.confidences = EmptyDict, Lower(line[2]),
                  DFloat(line[4]) \div 100, emits, out.caught)
        ELSE IF line = <<NOREC>>
        THEN Seen("neg", Mode(st), st.confidences = EmptyDict, "", 0, emits, out.caught)
        ELSE NoSeen

(* The label/value pairs on the lines read since the latest result header, *)
(* whatever the reader did with them.                                      *)
NoFresh == [conf |-> {}, imu |-> {}]

FreshRead(fr, line) ==
    IF Contains(line, RESULT_HDR) THEN NoFresh
    ELSE IF MatchConf(line) /\ DFloatOk(line[3])
    THEN [conf |-> fr.conf \cup {<<Lower(line[1]), DFloat(line[3]) \div 100>>},
          imu |-> fr.imu \cup {<<line[1], DFloat(line[3])>>}]
    ELSE IF MatchImu(line) /\ DFloatOk(line[3])
    THEN [fr EXCEPT !.imu = @ \cup {<<line[1], DFloat(line[3])>>}]
    ELSE fr

(* The body of the while loop on the line readline gave. *)
PassBody(line) ==
    /\ UNCHANGED <<rpc, running, serOpen, uiVars, sessionVars, added>>
    /\ IF Len(line) = 0
       THEN UNCHANGED <<rst, tkq, nEmitted, lastEmit, accepted, wfIds, blk, seen, fresh>>
       ELSE LET out == Pass(rst, line)
                event == StrokeEvent(nEmitted + 1, out.stroke, out.confidence,
                                     rst.confidences, rst.imu_stats)
            IN  /\ rst' = out.st
                /\ blk' = BlockRead(blk, line)
                /\ seen' = SeenOf(rst, line, out)
                /\ fresh' = FreshRead(fresh, line)
                /\ IF out.emit # ""
                   THEN /\ tkq' = OnStrokeReceived(tkq, event, "", paused)
                        /\ nEmitted' = nEmitted + 1
                        /\ lastEmit' = event
                        /\ accepted' = IF paused THEN accepted
                                       ELSE Append(accepted, event.id)
                        /\ wfIds' = IF BlockRead(blk, line).st = "done"
                                    THEN wfIds \cup {event.id} ELSE wfIds
                   ELSE UNCHANGED <<tkq, nEmitted, lastEmit, accepted, wfIds>>

(* One pass of the while loop: readline gives `line` (empty on a timeout). *)
ReaderStep(line) ==
    /\ rpc = "loop"
    /\ running
    /\ serOpen
    /\ PassBody(line)

(* The passes of the loop over the lines of one block, taken together: the *)
(* locals are private to the reader thread, and the other threads see only *)
(* the callbacks.  FeedLines gives the locals afterwards and what each     *)
(* emitting line handed to the callback.                                   *)
RECURSIVE FeedLines(_, _, _)
FeedLines(st, lines, outs) ==
    IF lines = <<>> THEN [st |-> st, outs |-> outs]
    ELSE LET out == ProcessLine(st, Head(lines))
             ev == StrokeEvent(nEmitted + Len(outs) + 1, out.stroke, out.confidence,
                               st.confidences, st.imu_stats)
         IN  FeedLines(out.st, Tail(lines),
                       IF out.emit # "" THEN Append(outs, ev) ELSE outs)

ReaderBlock(lines) ==
    /\ rpc = "loop"
    /\ running
    /\ serOpen
    /\ LET fed == FeedLines(rst, lines, <<>>)
           evs == fed.outs
       IN  /\ rst' = fed.st
           /\ nEmitted' = nEmitted + Len(evs)
           /\ lastEmit' = IF evs = <<>> THEN lastEmit ELSE evs[Len(evs)]
           /\ tkq' = Deliver(tkq, evs, paused)
           /\ accepted' = IF paused THEN accepted
                          ELSE accepted \o [i \in 1..Len(evs) |-> evs[i].id]
    /\ UNCHANGED <<rpc, running, serOpen, uiVars, sessionVars, added, wfIds, blk, seen, fresh>>

(* A variant of the SerialException handler that leaves the loop without   *)
(* calling the callback; C15 does not hold with it.                        *)
ReaderReadFailSilent ==
    /\ rpc = "loop"
    /\ running
    /\ rpc' = "done"
    /\ UNCHANGED <<running, serOpen, rst, uiVars, tkq, sessionVars, histVars>>

(* readline raises SerialException (device lost, or the port was closed by *)
(* stop()): the error is reported only if still running; the loop ends.    *)
ReaderReadFail ==
    /\ rpc = "loop"
    /\ running
    /\ Len(tkq) < MaxQueue
    /\ rpc' = "done"
    /\ tkq' = OnStrokeReceived(tkq, NoEvent, "Conexion serial perdida", paused)
    /\ UNCHANGED <<running, serOpen, rst, uiVars, sessionVars, histVars>>

(* A variant of the loop test that ignores self.running (`while True`);    *)
(* C17 does not hold with it.                                              *)
ReaderExitNever ==
    /\ rpc = "loop"
    /\ ~running
    /\ UNCHANGED <<readerVars, uiVars, tkq, sessionVars, histVars>>

(* while self.running is false: the thread ends. *)
ReaderExit ==
    /\ rpc = "loop"
    /\ ~running
    /\ rpc' = "done"
    /\ UNCHANGED <<running, serOpen, rst, uiVars, tkq, sessionVars, histVars>>

----------------------------------------------------------------------------
(* The Tk event loop: one queued callback, or one operator action.          *)

TkRun ==
    /\ tkq # <<>>
    /\ tkq' = Tail(tkq)
    /\ LET cb == Head(tkq)
       IN  IF cb.kind = "add"
           THEN /\ Apply("add_stroke", add_stroke(strokes, counts, cb.ev))
                /\ added' = Append(added, cb.ev.id)
                /\ UNCHANGED <<uiVars>>
           ELSE /\ status' = "error"
                /\ UNCHANGED <<connected, paused, sessionVars, added>>
    /\ UNCHANGED <<readerVars, nEmitted, lastEmit, accepted, wfIds, blk, seen, fresh>>

(* _connect: a new SerialReader is started (once the thread of the previous *)
(* one has ended).                                                         *)
Connect ==
    /\ ~connected
    /\ rpc \in {"off", "done"}
    /\ rpc' = "open"
    /\ running' = TRUE
    /\ serOpen' = FALSE
    /\ rst' = FreshLocals
    /\ connected' = TRUE
    /\ status' = "conectado"
    /\ blk' = NoBlock
    /\ seen' = NoSeen
    /\ fresh' = NoFresh
    /\ UNCHANGED <<paused, tkq, sessionVars, nEmitted, lastEmit, accepted, added, wfIds>>

(* _disconnect: SerialReader.stop() *)
Disconnect ==
    /\ connected
    /\ running' = FALSE
    /\ serOpen' = FALSE
    /\ connected' = FALSE
    /\ status' = "desconectado"
    /\ UNCHANGED <<rpc, rst, paused, tkq, sessionVars, histVars>>

(* _toggle_pause: the button is enabled while connected. *)
TogglePause ==
    /\ connected
    /\ paused' = ~paused
    /\ status' = IF ~paused THEN "pausado" ELSE "conectado"
    /\ UNCHANGED <<connected, readerVars, tkq, sessionVars, histVars>>

(* _undo_last *)
UndoLast ==
    /\ Apply("delete_last", delete_last(strokes, counts))
    /\ UNCHANGED <<readerVars, uiVars, tkq, histVars>>

(* _reset_session, confirmed. *)
ResetSession ==
    /\ Apply("reset", reset_session)
    /\ UNCHANGED <<readerVars, uiVars, tkq, histVars>>

(* _update_loop: the refresh tick reads total_strokes, then _update_stats   *)
(* reads counts[stroke] for the count bars.                                *)
RECURSIVE SumCounts(_, _)
SumCounts(cnt, keys) ==
    IF keys = {} THEN 0
    ELSE LET k == CHOOSE x \in keys : TRUE
         IN  cnt[k] + SumCounts(cnt, keys \ {k})

UpdateLoop ==
    /\ shown' = [current_count |-> Len(strokes), counted |-> SumCounts(counts, ALL_CLASSES)]
    /\ UNCHANGED <<strokes, counts, call, readerVars, uiVars, tkq, histVars>>

DashInit ==
    /\ rpc = "off"
    /\ running = FALSE
    /\ serOpen = FALSE
    /\ rst = FreshLocals
    /\ connected = FALSE
    /\ paused = FALSE
    /\ status = "desconectado"
    /\ tkq = <<>>
    /\ strokes = <<>>
    /\ counts = ZeroCounts
    /\ call = [op |-> "reset", raised |-> "", ret |-> 0]
    /\ shown = [current_count |-> 0, counted |-> 0]
    /\ nEmitted = 0
    /\ lastEmit = NoEvent
    /\ accepted = <<>>
    /\ added = <<>>
    /\ wfIds = {}
    /\ blk = NoBlock
    /\ seen = NoSeen
    /\ fresh = NoFresh

----------------------------------------------------------------------------
(* SessionData with its clock: the operations the UI loop runs on it, and  *)
(* the derived statistics.  Time is counted in whole seconds.              *)

MaxClock == 7        \* seconds the clock runs in the session exploration

DashStrokeTypes == {"drive", "reves", "smash"}

REST_LABEL == "descanso"

(* The labels of the events handed to add_stroke: a real class, the rest   *)
(* label, and a label the device prints that ALL_CLASSES does not hold.    *)
SessLabels == {"drive", REST_LABEL, "bandeja"}

total_real_strokes(cnt) == SumCounts(cnt, DashStrokeTypes)

(* datetime.now() - start_time, in seconds *)
elapsed(t, start) == t - start

Ratio(n, d) == [num |-> n, den |-> d]

(* elapsed_min = seconds / 60; 0.0 below 0.1 minute, else                   *)
(* total_real_strokes / elapsed_min, kept as a fraction.                    *)
strokes_per_minute(cnt, t, start) ==
    IF elapsed(t, start) * 10 < 60
    THEN Ratio(0, 1)
    ELSE Ratio(total_real_strokes(cnt) * 60, elapsed(t, start))

SessTick ==
    /\ now < MaxClock
    /\ now' = now + 1
    /\ UNCHANGED <<start_time, dashVars>>

SessAdd(label) ==
    /\ Len(strokes) < MaxEvents
    /\ Apply("add_stroke",
             add_stroke(strokes, counts,
                        StrokeEvent(Len(strokes) + 1, label, 91, EmptyDict, EmptyDict)))
    /\ UNCHANGED <<readerVars, uiVars, tkq, histVars, clockVars>>

SessUndo ==
    /\ UndoLast
    /\ UNCHANGED clockVars

(* SessionData.reset: start_time = datetime.now() *)
SessReset ==
    /\ ResetSession
    /\ start_time' = now
    /\ UNCHANGED now

ClockInit ==
    /\ now = 0
    /\ start_time = 0

SessionStep ==
    \/ SessTick
    \/ \E label \in SessLabels : SessAdd(label)
    \/ SessUndo
    \/ SessReset

----------------------------------------------------------------------------
(* SessionData.export_csv and PadelDashboard._export_session.  A number is  *)
(* held in thousandths; Fixed(v, k) is f'{v:.kf}': the value to k decimals. *)

ClassList == <<"drive", "reves", "smash", "descanso">>

ImuColumns ==
    <<"accel_pico", "accel_media", "gyro_pico", "gyro_media",
      "accel_max_x", "accel_max_y", "accel_max_z">>

(* the decimals each IMU column is written with *)
ImuDecimals == <<2, 2, 1, 1, 2, 2, 2>>

ExportHeader ==
    <<"timestamp", "stroke_type", "confidence">>
    \o [i \in 1..Len(ClassList) |-> <<"conf_", ClassList[i]>>]
    \o ImuColumns

Tenth(k) == IF k = 3 THEN 1 ELSE IF k = 2 THEN 10 ELSE 100

Fixed(v, k) == [decimals |-> k, units |-> (2 * v + Tenth(k)) \div (2 * Tenth(k))]

(* dict.get(k, 0) *)
Get(d, k) == IF k \in DOMAIN d THEN d[k] ELSE 0

ConfCellsPresent(e) ==
    LET has == SelectSeq(ClassList, LAMBDA c : c \in DOMAIN e.all_confidences)
    IN  [i \in 1..Len(has) |-> Fixed(e.all_confidences[has[i]], 3)]

(* [f'{s.all_confidences.get(c, 0):.3f}' for c in ALL_CLASSES] *)
ConfCells(e) == [i \in 1..Len(ClassList) |-> Fixed(Get(e.all_confidences, ClassList[i]), 3)]

ImuCells(e) ==
    [i \in 1..Len(ImuColumns) |-> Fixed(Get(e.imu_stats, ImuColumns[i]), ImuDecimals[i])]

(* s.timestamp.strftime(...): the event's own creation instant *)
Stamp(e) == <<"timestamp", e.id>>

ExportRow(e) ==
    <<Stamp(e), e.stroke_type, Fixed(e.confidence, 3)>> \o ConfCells(e) \o ImuCells(e)

export_csv(log) == <<ExportHeader>> \o [i \in 1..Len(log) |-> ExportRow(log[i])]

NoExport == <<>>

(* The events the reader hands over: a hit with one confidence and one IMU  *)
(* metric, a rest event with two confidences and no metric, and a hit whose  *)
(* label is not a known class.                                               *)
ExportEvents ==
    {[stroke |-> "drive", confidence |-> 870,
      conf |-> DictSet(EmptyDict, "drive", 870), imu |-> DictSet(EmptyDict, "accel_pico", 3250)],
     [stroke |-> "descanso", confidence |-> 870,
      conf |-> DictSet(DictSet(EmptyDict, "drive", 870), "reves", 100), imu |-> EmptyDict],
     [stroke |-> "bandeja", confidence |-> 910,
      conf |-> DictSet(EmptyDict, "bandeja", 910), imu |-> EmptyDict]}

ExpAdd(x) ==
    /\ Len(strokes) < MaxBlocks
    /\ Apply("add_stroke",
             add_stroke(strokes, counts,
                        StrokeEvent(Len(strokes) + 1, x.stroke, x.confidence, x.conf, x.imu)))
    /\ UNCHANGED <<readerVars, uiVars, tkq, histVars, clockVars, exportVars>>

ExpExportResets(ok) ==
    /\ Apply("reset", reset_session)
    /\ start_time' = now
    /\ dialog' = IF ok THEN "exportado" ELSE "error"
    /\ UNCHANGED <<readerVars, uiVars, tkq, histVars, now, exported>>

(* _export_session: nothing to export, or export_csv, which writes the file *)
(* (ok) or raises on open (not ok).                                          *)
ExpExport(ok) ==
    /\ IF Len(strokes) = 0
       THEN dialog' = "info" /\ UNCHANGED exported
       ELSE IF ok
       THEN dialog' = "exportado" /\ exported' = export_csv(strokes)
       ELSE dialog' = "error" /\ UNCHANGED exported
    /\ UNCHANGED <<dashVars, clockVars>>

ExpUndo ==
    /\ UndoLast
    /\ UNCHANGED <<clockVars, exportVars>>

ExpTick ==
    /\ SessTick
    /\ UNCHANGED exportVars

ExportInit ==
    /\ exported = NoExport
    /\ dialog = ""

ExportStep ==
    \/ \E x \in ExportEvents : ExpAdd(x)
    \/ \E ok \in BOOLEAN : ExpExport(ok)
    \/ ExpUndo
    \/ ExpTick

----------------------------------------------------------------------------
(* _read_loop with its dicts as objects: `confidences[k] = v` changes the  *)
(* object the name is bound to, `confidences = {}` binds the name to a new *)
(* object, and .copy() makes a new object with the same items.             *)

Fresh(h) == CHOOSE n \in 1..(Cardinality(DOMAIN h) + 1) : n \notin DOMAIN h

(* The maps are handed over as they are and emptied in place afterwards    *)
(* (no .copy(), .clear() for `= {}`); C33 does not hold with it.           *)
HandoverShared(h, c, i) ==
    [heap |-> [h EXCEPT ![c] = EmptyDict, ![i] = EmptyDict],
     ev |-> [conf |-> c, imu |-> i], conf |-> c, imu |-> i]

(* StrokeEvent(..., confidences.copy(), imu_stats.copy()); the callback;   *)
(* then confidences = {} and imu_stats = {}.                               *)
Handover(h, c, i) ==
    LET c2 == Fresh(h)
        h1 == DictSet(h, c2, h[c])
        i2 == Fresh(h1)
        h2 == DictSet(h1, i2, h[i])
        c3 == Fresh(h2)
        h3 == DictSet(h2, c3, EmptyDict)
        i3 == Fresh(h3)
        h4 == DictSet(h3, i3, EmptyDict)
    IN  [heap |-> h4, ev |-> [conf |-> c2, imu |-> i2], conf |-> c3, imu |-> i3]

(* confidences = {} and imu_stats = {} with no event made *)
Rebind(h) ==
    LET c3 == Fresh(h)
        h3 == DictSet(h, c3, EmptyDict)
        i3 == Fresh(h3)
    IN  [heap |-> DictSet(h3, i3, EmptyDict), conf |-> c3, imu |-> i3]

(* The pass reaches one of the two detection branches. *)
AtDetection(st, line) ==
    /\ ~Contains(line, RESULT_HDR)
    /\ ~Contains(line, IMU_HDR)
    /\ ~st.parsing_result
    /\ ~(st.parsing_imu /\ MatchImu(line))
    /\ Contains(line, DETECT) \/ Contains(line, NOREC)

(* Objects no name refers to any more are gone. *)
Collect(h, live) == [x \in live |-> h[x]]

HeapPass(line) ==
    LET st == ReaderLocals(heap[hst.conf], heap[hst.imu], hst.parsing_result, hst.parsing_imu)
        out == Pass(st, line)
        flags == [parsing_result |-> out.st.parsing_result, parsing_imu |-> out.st.parsing_imu]
        Settle(h, c, i, events) ==
            /\ hst' = [conf |-> c, imu |-> i, parsing_result |-> flags.parsing_result,
                       parsing_imu |-> flags.parsing_imu]
            /\ handed' = events
            /\ heap' = Collect(h, {c, i} \cup {events[n].conf : n \in 1..Len(events)}
                                          \cup {events[n].imu : n \in 1..Len(events)})
    IN  IF out.emit # ""
        THEN LET r == Handover(heap, hst.conf, hst.imu)
             IN  Settle(r.heap, r.conf, r.imu,
                        Append(handed, [conf |-> r.ev.conf, imu |-> r.ev.imu,
                                     was_conf |-> st.confidences, was_imu |-> st.imu_stats]))
        ELSE IF Contains(line, RESULT_HDR) \/ (AtDetection(st, line) /\ out.caught = "")
        THEN LET r == Rebind(heap)
             IN  Settle(r.heap, r.conf, r.imu, handed)
        ELSE Settle([heap EXCEPT ![hst.conf] = out.st.confidences,
                                 ![hst.imu] = out.st.imu_stats],
                    hst.conf, hst.imu, handed)

HeapInit ==
    /\ heap = DictSet(DictSet(EmptyDict, 1, EmptyDict), 2, EmptyDict)
    /\ hst = [conf |-> 1, imu |-> 2, parsing_result |-> FALSE, parsing_imu |-> FALSE]
    /\ handed = <<>>

NoLine == <<"(none)">>

Init == CapInit /\ TraceInit /\ RmInit /\ DashInit /\ ClockInit /\ ExportInit /\ HeapInit /\ inhand = NoLine /\ nHeaders = 0

(* The classifier feed of the dashboard exploration: whole blocks.         *)
BlockDrive == <<DResult, DConfDrive, DImu, DDetDrive>>
BlockBandeja == <<DResult, DConfDrive, DImu, DDetBandeja>>
BlockRest == <<DResult, DConfDrive, DImu, DNoRec>>

DashBlocks == {BlockDrive, BlockBandeja, BlockRest}

DashFed == nEmitted < MaxEvents /\ Len(tkq) < MaxQueue

(* The classifier feed of the framer exploration: every line in every      *)
(* order; the operator resets the session before the next detection.       *)
FramerLines ==
    {DBlank, DResult, DConfDrive, DConfReves, DImu, DStat, DDetDrive,
     DDetBandeja, DDetBad, DNoRec, DNoise}

FramerFed(line) ==
    /\ line = DResult => nEmitted < MaxBlocks
    /\ Contains(line, DETECT) \/ Contains(line, NOREC) => (tkq = <<>> /\ strokes = <<>>)

HeapFed(line) == line = DResult => Len(handed) < MaxBlocks

HeapLines == {DResult, DConfDrive, DImu, DStat, DDetDrive, DNoRec}

HeapStep == \E line \in HeapLines : HeapFed(line) /\ HeapPass(line)

(* The reader thread between two statements of a pass: readline has        *)
(* returned (the `while self.running` test was made before it), the line is *)
(* not yet processed.  stop() can run at that point.                        *)
StopRead(line) ==
    /\ rpc = "loop"
    /\ running
    /\ serOpen
    /\ inhand = NoLine
    /\ inhand' = line
    /\ UNCHANGED dashVars

StopProcess ==
    /\ rpc = "loop"
    /\ inhand # NoLine
    /\ PassBody(inhand)
    /\ inhand' = NoLine

StopExit ==
    /\ inhand = NoLine
    /\ ReaderExit
    /\ UNCHANGED inhand

DashStep ==
    \/ Connect
    \/ Disconnect
    \/ ReaderOpenOk
    \/ ReaderExit
    \/ \E lines \in DashBlocks : DashFed /\ ReaderBlock(lines)
    \/ TkRun
    \/ TogglePause
    \/ UndoLast
    \/ ResetSession
    \/ UpdateLoop

FramerStep ==
    \/ Connect
    \/ ReaderOpenOk
    \/ \E line \in FramerLines : FramerFed(line) /\ ReaderStep(line)
    \/ ReaderReadFail
    \/ TkRun
    \/ ResetSession

(* The classifier feed of the cancellation exploration: the lines of one   *)
(* block, one at a time, with connect and disconnect at any point.         *)
CancelLines == {DBlank, DResult, DConfDrive, DImu, DDetDrive}

CancelFed(line) ==
    /\ line = DResult => nEmitted < MaxBlocks
    /\ Contains(line, DETECT) => tkq = <<>>

CancelStep ==
    \/ Connect
    \/ Disconnect
    \/ ReaderOpenOk
    \/ ReaderOpenFail
    \/ \E line \in CancelLines : CancelFed(line) /\ ReaderStep(line)
    \/ ReaderReadFail
    \/ ReaderExit
    \/ TkRun

(* The reader on any line sequence, with the result headers counted. *)
BlocksLines == {DResult, DConfDrive, DImu, DStat, DDetDrive, DDetBad, DNoRec, DNoise}

BlocksFed(line) == Contains(line, RESULT_HDR) => nHeaders < MaxBlocks

BlocksRead(line) ==
    /\ ReaderStep(line)
    /\ nHeaders' = IF Contains(line, RESULT_HDR) THEN nHeaders + 1 ELSE nHeaders

BlocksStep ==
    \/ Connect /\ UNCHANGED nHeaders
    \/ ReaderOpenOk /\ UNCHANGED nHeaders
    \/ \E line \in BlocksLines : BlocksFed(line) /\ BlocksRead(line)

StopStep ==
    \/ Connect /\ UNCHANGED inhand
    \/ Disconnect /\ UNCHANGED inhand
    \/ ReaderOpenOk /\ UNCHANGED inhand
    \/ \E line \in CancelLines : CancelFed(line) /\ StopRead(line)
    \/ StopProcess
    \/ StopExit
    \/ TkRun /\ UNCHANGED inhand

CapNext == CapStep /\ UNCHANGED <<traceVars, rmVars, dashVars, clockVars, extraVars>>

SessionNext == SessionStep /\ UNCHANGED <<capVars, traceVars, rmVars, extraVars>>

ExportNext == ExportStep /\ UNCHANGED <<capVars, traceVars, rmVars, heapVars, inhand, nHeaders>>

StopNext == StopStep /\ UNCHANGED <<capVars, traceVars, rmVars, clockVars, exportVars, heapVars, nHeaders>>

BlocksNext == BlocksStep /\ UNCHANGED <<capVars, traceVars, rmVars, clockVars, exportVars, heapVars, inhand>>

HeapNext == HeapStep /\ UNCHANGED <<capVars, traceVars, rmVars, dashVars, clockVars, exportVars, inhand, nHeaders>>

FilesNext == FilesStep /\ UNCHANGED <<traceVars, rmVars, dashVars, clockVars, extraVars>>

FrameNext == FrameStep /\ UNCHANGED <<rmVars, dashVars, clockVars, extraVars>>

RmNext == RmStep /\ UNCHANGED <<traceVars, dashVars, clockVars, extraVars>>

DashNext == DashStep /\ UNCHANGED <<capVars, traceVars, rmVars, clockVars, extraVars>>

FramerNext == FramerStep /\ UNCHANGED <<capVars, traceVars, rmVars, clockVars, extraVars>>

SpecCapture == Init /\ [][CapNext]_vars

SpecRemove == Init /\ [][RmNext]_vars

FilesInit ==
    /\ CapStart
    /\ files \in [Classes -> StartFiles]
    /\ TraceInit /\ RmInit /\ DashInit /\ ClockInit /\ ExportInit /\ HeapInit /\ inhand = NoLine /\ nHeaders = 0

SpecFiles == FilesInit /\ [][FilesNext]_vars

SpecFrame == Init /\ [][FrameNext]_vars

SpecSession == Init /\ [][SessionNext]_vars

SpecExport == Init /\ [][ExportNext]_vars

SpecStop == Init /\ [][StopNext]_vars

SpecBlocks == Init /\ [][BlocksNext]_vars

SpecHeap == Init /\ [][HeapNext]_vars

SpecDashboard == Init /\ [][DashNext]_vars

SpecFramer == Init /\ [][FramerNext]_vars

CancelNext == CancelStep /\ UNCHANGED <<capVars, traceVars, rmVars, clockVars, extraVars>>

(* The reader thread is scheduled fairly: serial.Serial(...) returns or    *)
(* raises, and a pass of the loop that finds self.running false (or the    *)
(* port closed under readline) is taken.                                   *)
SpecCancel ==
    /\ Init
    /\ [][CancelNext]_vars
    /\ WF_vars(ReaderOpenOk /\ UNCHANGED <<capVars, traceVars, rmVars, clockVars, extraVars>>)
    /\ WF_vars(ReaderExit /\ UNCHANGED <<capVars, traceVars, rmVars, clockVars, extraVars>>)

----------------------------------------------------------------------------
(* Properties.                                                              *)

InLog(c) == Cardinality({i \in 1..Len(strokes) : strokes[i].stroke_type = c})

LogClasses == {strokes[i].stroke_type : i \in 1..Len(strokes)}

QueuedIds == [i \in 1..Len(tkq) |-> tkq[i].ev.id]

(* C1: in every reachable state of the session the counts add up to the    *)
(* length of the log and, class by class, counts[c] is the number of       *)
(* logged events of class c (a class with no counter counting as absent).  *)
C1_LogCountConsistent ==
    /\ SumCounts(counts, DOMAIN counts) = Len(strokes)
    /\ \A c \in (DOMAIN counts) \cup LogClasses :
          c \in DOMAIN counts /\ counts[c] = InLog(c)

(* C2: whenever capture_stroke has returned a burst to main(), the burst   *)
(* holds exactly NUM_SAMPLES samples.                                      *)
C2_BurstExact == pc = "decide" => Len(samples) = NUM_SAMPLES

C2_Witness ==
    /\ pc = "decide"
    /\ printed = "capturado"
    /\ Len(samples) = NUM_SAMPLES
    /\ samples[1] = ParseValues(LineB)

(* C3: every class file holds a whole number of bursts: its data rows are   *)
(* a multiple of NUM_SAMPLES and count_existing_strokes is the quotient.   *)
C3_RowsMultipleOfN ==
    \A c \in Classes :
        /\ DataRows(files[c]) % NUM_SAMPLES = 0
        /\ count_existing_strokes(files[c]) * NUM_SAMPLES = DataRows(files[c])
        /\ files[c].exists => Len(files[c].rows) = DataRows(files[c]) + 1

C3_Witness ==
    /\ printed = "eliminado"
    /\ removed = "True"
    /\ \A c \in Classes : count_existing_strokes(files[c]) = 1

(* C4 as claimed: every event the reader has handed to its callback is     *)
(* waiting in the Tk queue or has been passed to add_stroke, once, in      *)
(* emission order.                                                         *)
C4_EveryEmittedAppended == [i \in 1..nEmitted |-> i] = added \o QueuedIds

(* C4 as amended: the events handed to the callback while the dashboard is *)
(* not paused are, in emission order, those passed to add_stroke followed  *)
(* by those waiting in the Tk queue (so none is lost and none is added     *)
(* twice); add_stroke puts its event at the log tail; and the log gets     *)
(* shorter only in delete_last or reset.                                   *)
C4_UnpausedAppendedOnce ==
    /\ [](accepted = added \o QueuedIds)
    /\ [][/\ (added' # added =>
                /\ tkq # <<>>
                /\ added' = Append(added, Head(tkq).ev.id)
                /\ strokes' = Append(strokes, Head(tkq).ev))
          /\ (Len(strokes') < Len(strokes) => call'.op \in {"delete_last", "reset"})
          /\ (strokes' # strokes => (added' # added \/ call'.op \in {"delete_last", "reset"}))
         ]_vars

C4_Witness ==
    /\ nEmitted = MaxEvents
    /\ Len(accepted) = 2
    /\ added = accepted
    /\ Len(strokes) = 2
    /\ strokes[1].id = accepted[1]

(* C5: for every event waiting to be appended, add_stroke followed by      *)
(* delete_last returns that event and gives back the log and the counts    *)
(* as they are now.                                                        *)
UndoInverts(e) ==
    LET a == add_stroke(strokes, counts, e)
        d == delete_last(a.strokes, a.counts)
    IN  /\ a.raised = ""
        /\ d.raised = ""
        /\ d.ret = e.id
        /\ d.strokes = strokes
        /\ d.counts = counts

C5_UndoInvertsAppend ==
    \A i \in 1..Len(tkq) : tkq[i].kind = "add" => UndoInverts(tkq[i].ev)

(* C6: a detection line, positive or negative, processed while the         *)
(* accumulated confidences are empty hands no event to the callback and    *)
(* raises nothing, whatever mode the reader is in.                         *)
C6_DetectionGated ==
    (seen.det \in {"pos", "neg"} /\ seen.empty) => (seen.emits = 0 /\ seen.caught = "")

C6_Witness ==
    /\ seen.det = "pos"
    /\ seen.empty
    /\ seen.mode = "imu"
    /\ seen.emits = 0

(* C7: a positive-detection line processed while the accumulated           *)
(* confidences are not empty hands exactly one event to the callback, with *)
(* the line's label and percentage / 100, and leaves both maps empty and   *)
(* the reader idle, whatever mode the reader was in.                       *)
C7_DetectionAlwaysEmits ==
    (seen.det = "pos" /\ ~seen.empty) =>
        /\ seen.emits = 1
        /\ lastEmit.id = nEmitted
        /\ lastEmit.stroke_type = seen.stroke
        /\ lastEmit.confidence = seen.confidence
        /\ rst = FreshLocals

(* C8: the detection line that closes a complete well-formed block hands   *)
(* exactly one event to the callback, its class and top confidence from    *)
(* the detection line and its maps the pairs of the two sections; and when *)
(* that event is appended, the count of its class grows by one.            *)
C8_BlockEmits ==
    (blk.st # "done" /\ blk'.st = "done") =>
        /\ nEmitted' = nEmitted + 1
        /\ lastEmit' = StrokeEvent(nEmitted', blk'.stroke, blk'.confidence,
                                   blk'.conf, blk'.imu)

C8_BlockCounted ==
    (added' # added /\ tkq # <<>> /\ Head(tkq).ev.id \in wfIds) =>
        LET c == Head(tkq).ev.stroke_type
        IN  /\ c \in DOMAIN counts
            /\ c \in DOMAIN counts'
            /\ counts'[c] = counts[c] + 1

C8_WellFormedBlock == [][C8_BlockEmits /\ C8_BlockCounted]_vars

(* C9: add_stroke never fails: it puts the event at the log tail and adds  *)
(* one to the count of the event's class.                                  *)
C9_AppendNeverRejects ==
    [][(added' # added /\ tkq # <<>>) =>
          LET e == Head(tkq).ev
          IN  /\ call'.op = "add_stroke"
              /\ call'.raised = ""
              /\ strokes' = Append(strokes, e)
              /\ e.stroke_type \in DOMAIN counts'
              /\ e.stroke_type \in DOMAIN counts
              /\ counts'[e.stroke_type] = counts[e.stroke_type] + 1
      ]_vars

(* C10: an end marker read while capture_stroke has seen no start marker   *)
(* changes nothing and reports no outcome.                                 *)
C10_EndWhileIdleIgnored ==
    [][(pc = "wait" /\ linkUp /\ ~capturing /\ ReadLine(LineEnd)) =>
          /\ printed' = "none"
          /\ UNCHANGED <<pc, capturing, samples>>
      ]_vars

(* C11: a start marker read while capturing empties the buffer and leaves  *)
(* the framer capturing; the buffer holds only the sample lines accepted   *)
(* since the latest start marker, and a returned burst is made of exactly  *)
(* NUM_SAMPLES of them.                                                    *)
C11_FrameRestart ==
    /\ [][(pc = "wait" /\ linkUp /\ capturing /\ ReadLine(LineStart)) =>
            (capturing' /\ samples' = <<>> /\ pc' = "wait")]_vars
    /\ [](Len(samples) = sinceStart)
    /\ [](pc = "decide" => sinceStart = NUM_SAMPLES)

C11_Witness ==
    /\ pc = "decide"
    /\ restarted
    /\ Len(samples) = NUM_SAMPLES
    /\ samples[1] = ParseValues(LineA)

(* C12: a class file that exists holds at least one whole burst (never a   *)
(* header alone), and a remove_last_stroke that takes the only burst of a  *)
(* class leaves no file.                                                   *)
C12_NoHeaderOnlyFile ==
    /\ [](\A c \in Classes :
            files[c].exists => (Len(files[c].rows) > 1 /\ DataRows(files[c]) >= NUM_SAMPLES))
    /\ [][\A c \in Classes :
            (MenuDelete(c) /\ count_existing_strokes(files[c]) = 1) =>
                (removed' = "True" /\ files'[c] = NoFile)]_vars

C12_Witness ==
    /\ pc = "menu"
    /\ printed = "eliminado"
    /\ removed = "True"
    /\ \A c \in Classes : ~files[c].exists

(* C13: the log and the counts change only in a step of the UI loop (a     *)
(* queued add_stroke, an undo or a reset), never in a step of the reader   *)
(* thread; and every refresh tick reads a log length equal to the sum of   *)
(* the counts.                                                             *)
C13_StoreOnUiLoop ==
    [][(strokes' # strokes \/ counts' # counts) => (TkRun \/ UndoLast \/ ResetSession)]_vars

C13_SerializedStore ==
    /\ C13_StoreOnUiLoop
    /\ [](shown.current_count = shown.counted)

(* C14: a count_existing_strokes that runs while remove_last_stroke is at  *)
(* work on the same class returns the burst count from before the removal  *)
(* or the one from after it.                                               *)
C14_RemoveAtomicForReaders ==
    counted.racing => counted.n \in {counted.before, counted.before - 1}

(* C15: when readline fails while the reader is running, the loop ends,    *)
(* the error is handed to the display (queued for the UI loop, then shown  *)
(* as the status), and from then on the reader emits no event, whatever    *)
(* part of a block it had accumulated.                                     *)
ErrorQueued == \E i \in 1..Len(tkq) : tkq[i].kind = "err"

C15_ReadFailureReported ==
    /\ []((rpc = "done" /\ running) => (ErrorQueued \/ status = "error"))
    /\ [][(rpc = "loop" /\ rpc' = "done" /\ running) =>
            (tkq' = Append(tkq, TkErr("Conexion serial perdida")) /\ nEmitted' = nEmitted)]_vars
    /\ [][rpc = "done" => (nEmitted' = nEmitted /\ rpc' = "done")]_vars

C15_Witness ==
    /\ rpc = "done"
    /\ running
    /\ rst.parsing_imu
    /\ rst.confidences # EmptyDict
    /\ status = "error"
    /\ tkq = <<>>
    /\ nEmitted = 0

(* C16: once a readline of the capture loop has raised SerialException,    *)
(* the program does not call readline again.                               *)
C16_StopsReadingAfterFailure == failReads <= 1

(* C17: once stop() has been called on a reader whose thread has not yet   *)
(* ended, the thread eventually ends.                                      *)
C17_StopExits == (~running /\ rpc \in {"open", "loop"}) ~> (rpc = "done")

C17_Witness ==
    /\ rpc = "done"
    /\ ~running
    /\ ~connected
    /\ rst.parsing_result
    /\ rst.confidences # EmptyDict

(* C18: saving a returned burst raises the burst count of its class by one *)
(* (to 1 on an absent file); a remove_last_stroke that returns True lowers *)
(* it by one; and remove_last_stroke straight after the save gives back    *)
(* the file as it was, absent if it was absent.                            *)
C18_SaveThenRemove ==
    /\ [](pc = "decide" =>
            LET f == files[stroke_type]
                g == SaveFile(f, samples)
            IN  /\ count_existing_strokes(g) = count_existing_strokes(f) + 1
                /\ (~f.exists => count_existing_strokes(g) = 1)
                /\ RemoveOk(g)
                /\ RemoveFile(g) = f)
    /\ [][(pc = "decide" /\ printed' = "guardado") =>
            count_existing_strokes(files'[stroke_type])
                = count_existing_strokes(files[stroke_type]) + 1]_vars
    /\ [][\A c \in Classes :
            (MenuDelete(c) /\ removed' = "True") =>
                count_existing_strokes(files'[c]) = count_existing_strokes(files[c]) - 1]_vars

C18_Witness ==
    /\ pc = "menu"
    /\ printed = "eliminado"
    /\ removed = "True"
    /\ \E c \in Classes :
          /\ count_existing_strokes(files[c]) = 1
          /\ files[c].rows[2] = FormatRow(ParseValues(LineB))
          /\ \A d \in Classes \ {c} : ~files[d].exists

(* C19: a negative-detection line processed while the accumulated          *)
(* confidences are not empty hands exactly one event to the callback: the  *)
(* rest class, the largest accumulated confidence, and both accumulated    *)
(* maps; it leaves both maps empty and the reader idle.                    *)
NegativeEmits ==
    /\ nEmitted' = nEmitted + 1
    /\ lastEmit' = StrokeEvent(nEmitted', "descanso", DictMax(rst.confidences),
                               rst.confidences, rst.imu_stats)
    /\ rst' = FreshLocals

C19_NegativeDetectionEmits ==
    [][(ReaderStep(DNoRec) /\ rst.confidences # EmptyDict) => NegativeEmits]_vars

(* The same, for a line that does not arrive in result mode. *)
C19_OutsideResultMode ==
    [][(ReaderStep(DNoRec) /\ rst.confidences # EmptyDict /\ ~rst.parsing_result)
          => NegativeEmits]_vars

(* C20: a result header read in any mode empties both maps, puts the       *)
(* reader in result mode and emits nothing; and every pair an emitted      *)
(* event carries was on a line read after the latest result header.        *)
Pairs(d) == {<<k, d[k]>> : k \in DOMAIN d}

C20_HeaderResets ==
    /\ [][ReaderStep(DResult) =>
            /\ rst' = ReaderLocals(EmptyDict, EmptyDict, TRUE, FALSE)
            /\ nEmitted' = nEmitted]_vars
    /\ [][nEmitted' > nEmitted =>
            /\ Pairs(lastEmit'.all_confidences) \subseteq fresh.conf
            /\ Pairs(lastEmit'.imu_stats) \subseteq fresh.imu]_vars

C20_Witness ==
    /\ rst = ReaderLocals(EmptyDict, EmptyDict, TRUE, FALSE)
    /\ fresh = NoFresh
    /\ lastEmit.imu_stats # EmptyDict
    /\ nEmitted = 1

(* C21 as claimed: in the IMU section, every line that is not a header and *)
(* does not match the stat pattern ends the section in the pass that reads *)
(* it; a detection line met with confidences emits its event in that pass; *)
(* a line that is neither a detection line nor a stat line emits nothing   *)
(* and leaves both maps as they were.                                      *)
IsHeaderLine(line) == Contains(line, RESULT_HDR) \/ Contains(line, IMU_HDR)

FallsThrough(st, line) ==
    LET out == Pass(st, line)
    IN  /\ ~out.st.parsing_imu
        /\ (IsDetectLine(line) /\ st.confidences # EmptyDict) =>
               /\ out.emit = "hit"
               /\ out.stroke = Lower(line[2])
               /\ out.confidence = DFloat(line[4]) \div 100
        /\ (line = DNoRec /\ st.confidences # EmptyDict) => out.emit = "rest"
        /\ (~Contains(line, DETECT) /\ ~Contains(line, NOREC)) =>
               /\ out.emit = ""
               /\ out.caught = ""
               /\ out.st.confidences = st.confidences
               /\ out.st.imu_stats = st.imu_stats

C21_NonStatLineEndsImu ==
    rst.parsing_imu =>
        \A line \in FramerLines :
            (~IsHeaderLine(line) /\ ~MatchImu(line)) => FallsThrough(rst, line)

(* C21 as amended: the same for every non-empty line; an empty line is     *)
(* skipped and leaves the reader in the IMU section, maps untouched.       *)
C21_NonEmptyNonStatLineEndsImu ==
    rst.parsing_imu =>
        /\ \A line \in FramerLines :
              (line # <<>> /\ ~IsHeaderLine(line) /\ ~MatchImu(line))
                  => FallsThrough(rst, line)
        /\ Pass(rst, DBlank) = Quiet(rst)

C21_Witness ==
    /\ seen.det = "pos"
    /\ seen.mode = "imu"
    /\ ~seen.empty
    /\ seen.emits = 1
    /\ rst = FreshLocals
    /\ lastEmit.imu_stats # EmptyDict

(* C22: while capturing, a line that is not six numeric fields is skipped: *)
(* the reader stays in capture_stroke, still capturing, with the buffer    *)
(* untouched and nothing reported; the frame can still complete.           *)
C22_MalformedSkipped ==
    [][\A line \in FrameLines :
          (capturing /\ Malformed(line) /\ FrameRead(line)) =>
              (capturing' /\ samples' = samples /\ pc' = "wait" /\ printed' = "none"
               /\ sinceStart' = sinceStart)]_vars

C22_Witness ==
    /\ pc = "decide"
    /\ skipped
    /\ Len(samples) = NUM_SAMPLES
    /\ printed = "capturado"

(* C23: only finite samples are buffered: no buffered sample holds a       *)
(* non-finite value (float() accepts the token nan and gives nan).         *)
NonFinite == {"nan"}

C23_OnlyFiniteBuffered ==
    \A i \in 1..Len(samples) : \A j \in 1..Len(samples[i]) : samples[i][j] \notin NonFinite

(* C24: an end marker that arrives while capturing with a count other than *)
(* NUM_SAMPLES discards the buffer, reports the observed and the expected  *)
(* count, persists nothing and leaves the loop reading; the next complete  *)
(* cycle yields a burst made of its own NUM_SAMPLES samples only.          *)
C24_ShortBurstDiscarded ==
    [][/\ (capturing /\ Len(samples) # NUM_SAMPLES /\ FrameRead(LineEnd)) =>
             /\ samples' = <<>>
             /\ ~capturing'
             /\ pc' = "wait"
             /\ printed' = "incompleta"
             /\ diag' = [observed |-> Len(samples), expected |-> NUM_SAMPLES]
             /\ files' = files
       /\ (prevOutcome \in {"fewer", "more"} /\ pc = "wait" /\ pc' = "decide") =>
             /\ Len(samples') = NUM_SAMPLES
             /\ sinceStart' = NUM_SAMPLES]_vars

C24_Witness ==
    /\ pc = "decide"
    /\ prevOutcome = "more"
    /\ Len(samples) = NUM_SAMPLES
    /\ printed = "capturado"

(* C25: delete_last on an empty log returns None without raising and       *)
(* leaves the log, every count and the session start instant as they were; *)
(* no undo ever leaves a negative count.                                    *)
C25_UndoOnEmptyLog ==
    [][SessUndo =>
          /\ strokes = <<>> =>
                /\ call'.ret = 0
                /\ call'.raised = ""
                /\ strokes' = <<>>
                /\ counts' = counts
                /\ start_time' = start_time
          /\ \A c \in DOMAIN counts' : counts'[c] >= 0]_vars

C25_Witness ==
    /\ call = [op |-> "delete_last", raised |-> "", ret |-> 0]
    /\ strokes = <<>>
    /\ start_time > 0
    /\ now > start_time

(* C26: reset leaves the log empty, the count of every known class at 0    *)
(* and the start instant at the current time, and a delete_last right      *)
(* after it finds nothing to undo.                                          *)
C26_ResetClears ==
    [][SessReset =>
          /\ strokes' = <<>>
          /\ \A c \in ALL_CLASSES : counts'[c] = 0
          /\ start_time' = now'
          /\ delete_last(strokes', counts') = Session(<<>>, counts', "", NoEvent)]_vars

C26_Witness ==
    /\ call.op = "reset"
    /\ strokes = <<>>
    /\ counts = ZeroCounts
    /\ start_time = MaxClock
    /\ now = start_time

(* C30: strokes_per_minute is 0 while fewer than 6 seconds have elapsed,   *)
(* and otherwise the number of events of the log whose class is not the    *)
(* rest label, divided by the elapsed minutes.                              *)
RealInLog == Cardinality({i \in 1..Len(strokes) : strokes[i].stroke_type # REST_LABEL})

C30_StrokesPerMinute ==
    LET r == strokes_per_minute(counts, now, start_time)
        secs == now - start_time
    IN  IF secs < 6
        THEN r.num = 0
        ELSE r.num * secs = RealInLog * 60 * r.den

(* C27: remove_last_stroke on a class whose file is missing or holds fewer *)
(* than NUM_SAMPLES data rows returns False and leaves every file as it    *)
(* was.                                                                    *)
C27_NothingToRemove ==
    [][\A c \in Classes :
          (MenuDelete(c) /\ (~files[c].exists \/ Len(files[c].rows) - 1 < NUM_SAMPLES)) =>
              (removed' = "False" /\ printed' = "no hay golpes" /\ files' = files)]_vars

C27_Witness ==
    /\ removed = "False"
    /\ printed = "no hay golpes"
    /\ \A c \in Classes : files[c] = OnDisk(<<CSV_HEADER, RowB>>)

(* C29 as claimed: remove_last_stroke on a file of at least NUM_SAMPLES    *)
(* data rows cuts the last NUM_SAMPLES rows and keeps the header and the   *)
(* earlier rows.                                                           *)
C29_RemovesLastBurst ==
    [][\A c \in Classes :
          (MenuDelete(c) /\ files[c].exists /\ Len(files[c].rows) - 1 >= NUM_SAMPLES) =>
              /\ removed' = "True"
              /\ files'[c] = OnDisk(SubSeq(files[c].rows, 1, Len(files[c].rows) - NUM_SAMPLES))]_vars

(* C29 as amended: the same when more than NUM_SAMPLES data rows are held; *)
(* with exactly NUM_SAMPLES the file is deleted, header included.  The     *)
(* files of the other classes are untouched.                               *)
C29_RemovesLastBurstOrFile ==
    [][\A c \in Classes :
          (MenuDelete(c) /\ files[c].exists /\ Len(files[c].rows) - 1 >= NUM_SAMPLES) =>
              /\ removed' = "True"
              /\ files'[c] = IF Len(files[c].rows) - 1 > NUM_SAMPLES
                             THEN OnDisk(SubSeq(files[c].rows, 1, Len(files[c].rows) - NUM_SAMPLES))
                             ELSE NoFile
              /\ \A d \in Classes \ {c} : files'[d] = files[d]]_vars

C29_Witness ==
    /\ removed = "True"
    /\ printed = "eliminado"
    /\ \A c \in Classes : files[c] = OnDisk(<<CSV_HEADER>> \o BurstRows)

(* C28: save_strokes_to_csv writes the header only on an absent or empty   *)
(* file and puts the rows of the burst after the rows already there, which *)
(* it leaves as they are; so every class file that exists has the header   *)
(* as its first row and nowhere else.                                      *)
Appended(f, g, buf) ==
    LET kept == IF f.exists /\ f.rows # <<>> THEN f.rows ELSE <<CSV_HEADER>>
    IN  /\ g.exists
        /\ Len(g.rows) = Len(kept) + Len(buf)
        /\ SubSeq(g.rows, 1, Len(kept)) = kept
        /\ \A i \in 1..Len(buf) : g.rows[Len(kept) + i] = FormatRow(buf[i])

C28_AppendOnlySingleHeader ==
    /\ \A c \in Classes :
          files[c].exists =>
              /\ Len(files[c].rows) > 0
              /\ files[c].rows[1] = CSV_HEADER
              /\ \A i \in 2..Len(files[c].rows) : files[c].rows[i] # CSV_HEADER
    /\ pc = "decide" =>
          /\ Appended(files[stroke_type], SaveFile(files[stroke_type], samples), samples)
          /\ Appended(OnDisk(<<>>), SaveFile(OnDisk(<<>>), samples), samples)

C28_Witness ==
    /\ printed = "guardado"
    /\ \E c \in Classes :
          /\ count_existing_strokes(files[c]) = 2
          /\ files[c].rows[2] = RowB
          /\ files[c].rows[NUM_SAMPLES + 2] = FormatRow(ParseValues(LineA))

(* C31: the file export_csv writes holds the header and then one row per   *)
(* event of the log, in log order; every row has the fourteen columns of   *)
(* the header, and a confidence or IMU metric the event does not carry is  *)
(* written as zero.                                                        *)
RowOf(row, e) ==
    /\ Len(row) = Len(ExportHeader)
    /\ row[1] = <<"timestamp", e.id>>
    /\ row[2] = e.stroke_type
    /\ row[3] = [decimals |-> 3, units |-> e.confidence]
    /\ \A i \in 1..4 :
          /\ row[3 + i].decimals = 3
          /\ row[3 + i].units =
                IF ClassList[i] \in DOMAIN e.all_confidences
                THEN e.all_confidences[ClassList[i]] ELSE 0
    /\ \A i \in 1..7 :
          ImuColumns[i] \notin DOMAIN e.imu_stats => row[7 + i].units = 0

C31_ExportRowPerEvent ==
    [][(ExpExport(TRUE) /\ strokes # <<>>) =>
          /\ Len(exported') = Len(strokes) + 1
          /\ exported'[1] = ExportHeader
          /\ Len(ExportHeader) = 14
          /\ \A i \in 1..Len(strokes) : RowOf(exported'[i + 1], strokes[i])]_vars

C31_Witness ==
    /\ dialog = "exportado"
    /\ Len(exported) = 3
    /\ exported[2][2] = "drive"
    /\ exported[2][8].units = 325
    /\ exported[3][2] = "bandeja"
    /\ exported[3][4].units = 0
    /\ exported[3][8].units = 0

(* C32: an export, written or failed, leaves the log, the counts and the   *)
(* start instant as they were; a failed one shows the error dialog.        *)
C32_ExportKeepsSession ==
    [][\A ok \in BOOLEAN :
          ExpExport(ok) =>
              /\ strokes' = strokes
              /\ counts' = counts
              /\ start_time' = start_time
              /\ (~ok /\ strokes # <<>>) => (dialog' = "error" /\ exported' = exported)]_vars

C32_Witness ==
    /\ dialog = "error"
    /\ Len(strokes) = MaxBlocks
    /\ exported = NoExport
    /\ now > start_time

(* C33: the maps of an event handed to the callback are objects of their   *)
(* own, never the reader's, and they keep the items they had when the      *)
(* event was made, whatever lines the reader processes afterwards.         *)
C33_SnapshotIsolation ==
    \A n \in 1..Len(handed) :
        /\ heap[handed[n].conf] = handed[n].was_conf
        /\ heap[handed[n].imu] = handed[n].was_imu
        /\ {handed[n].conf, handed[n].imu} \cap {hst.conf, hst.imu} = {}

C33_Witness ==
    /\ Len(handed) >= 1
    /\ handed[1].was_conf # EmptyDict
    /\ handed[1].was_imu # EmptyDict
    /\ heap[hst.conf] # EmptyDict
    /\ heap[hst.imu] \notin {EmptyDict, handed[1].was_imu}

(* C34: once _disconnect has run (stop() has returned), the stopped reader *)
(* hands no event to its callback and the log does not grow.               *)
C34_NoDeliveryAfterStop ==
    [][~running => (nEmitted' = nEmitted /\ Len(strokes') <= Len(strokes))]_vars

(* C35: the reader has never handed over more events than it has processed *)
(* result header lines; a detection line that follows the event of its     *)
(* block hands over nothing.                                               *)
C35_OneEventPerBlock == nEmitted <= nHeaders

C35_Witness ==
    /\ nHeaders = 1
    /\ nEmitted = 1
    /\ seen.det = "pos"
    /\ seen.emits = 0
    /\ seen.caught = ""

(* C36: the burst capture_stroke returns is, value for value and in order, *)
(* the six-number lines received since the latest start marker; before a   *)
(* start marker nothing is buffered.                                       *)
C36_BurstIsLinesSinceStart ==
    /\ Len(samples) = Len(got.lines)
    /\ \A i \in 1..Len(samples) :
          \A j \in 1..6 : samples[i][j] = FloatTable[got.lines[i][j]]
    /\ ~got.open => samples = <<>>
    /\ pc = "decide" => (got.open /\ Len(got.lines) = NUM_SAMPLES)

C36_Witness ==
    /\ pc = "decide"
    /\ restarted
    /\ skipped
    /\ Len(samples) = NUM_SAMPLES
    /\ got.lines[1] = LineA
    /\ got.lines[NUM_SAMPLES] = LineA

====
